---- MODULE Spec2Model ----
(***************************************************************************)
(* Model of the asynchronous news workflow (news_workflow.py, main.py,     *)
(* news_extraction_async.py, llm_integrations.py, notifications.py).       *)
(*                                                                         *)
(* Strings are sequences of atoms.  An atom is a chunk of characters that  *)
(* contains no '/' and is never split by the code; the character '/' is an *)
(* atom of its own, so "https://www.a.com" is                              *)
(* <<"https:", "/", "/", "www.", "a.com">>.  The empty string is <<>>.     *)
(* The text of an article body is represented by its character count.      *)
(***************************************************************************)
EXTENDS Integers, Sequences, FiniteSets, TLC

VARIABLES pc, state, loc, api_key, calls, nodes_run, report

vars == <<pc, state, loc, api_key, calls, nodes_run, report>>

(***************************************************************************)
(* Bounds and program constants                                            *)
(***************************************************************************)
MaxSources == 2

\* the article links the web serves in one run
MaxLinks == 2

\* the anchors of a page, the paragraphs of a body and the repeated runs of the
\* extraction, when a function is called on its own
MaxAnchors == 3

MaxParagraphs == 2

MaxRuns == 2

MAX_ARTICLES_PER_SOURCE == 2

MAX_RETRIES == 3

MIN_CONTENT_LEN == 50

(***************************************************************************)
(* Python string operations on atom sequences                              *)
(***************************************************************************)
RECURSIVE split_from(_, _, _)
split_from(s, sep, cur) ==
    IF Len(s) < Len(sep) THEN <<cur \o s>>
    ELSE IF SubSeq(s, 1, Len(sep)) = sep
         THEN <<cur>> \o split_from(SubSeq(s, Len(sep) + 1, Len(s)), sep, <<>>)
         ELSE split_from(Tail(s), sep, Append(cur, Head(s)))

\* str.split(sep)
split(s, sep) == split_from(s, sep, <<>>)

\* sub in s
contains(s, sub) ==
    \E i \in 0..(Len(s) - Len(sub)) : SubSeq(s, i + 1, i + Len(sub)) = sub

\* s.startswith(prefix)
startswith(s, prefix) ==
    Len(s) >= Len(prefix) /\ SubSeq(s, 1, Len(prefix)) = prefix

\* s.endswith(suffix)
endswith(s, suffix) ==
    Len(s) >= Len(suffix) /\ SubSeq(s, Len(s) - Len(suffix) + 1, Len(s)) = suffix

\* s.replace(atom, '') for a one-atom pattern
RECURSIVE remove_all(_, _)
remove_all(s, atom) ==
    IF s = <<>> THEN <<>>
    ELSE IF Head(s) = atom THEN remove_all(Tail(s), atom)
         ELSE <<Head(s)>> \o remove_all(Tail(s), atom)

SLASH == <<"/">>

DSLASH == <<"/", "/">>

WWW == <<"www.">>

\* url.split('//')[1].split('/')[0]; IndexError when the url has no '//'
host_of(url) ==
    LET parts == split(url, DSLASH)
    IN IF Len(parts) < 2
       THEN [raised |-> TRUE, exc |-> <<"list index out of range">>, value |-> <<>>]
       ELSE [raised |-> FALSE, exc |-> <<>>, value |-> split(parts[2], SLASH)[1]]

(***************************************************************************)
(* Configured sources (config.NEWS_SOURCES) and the pages of the web       *)
(***************************************************************************)
UrlA == <<"https:", "/", "/", "www.", "a.com">>

UrlB == <<"https:", "/", "/", "b.com">>

\* a string source
SrcStr == [type |-> "str", keys |-> {}, name |-> <<>>, url |-> UrlA, repr |-> "'https://www.a.com'"]

\* a string source without '//'
SrcNoScheme == [type |-> "str", keys |-> {}, name |-> <<>>, url |-> <<"a.com">>, repr |-> "'a.com'"]

\* an object source {name, url}
SrcDict == [type |-> "dict", keys |-> {"name", "url"}, name |-> <<"B">>, url |-> UrlB, repr |-> "{'name': 'B', 'url': 'https://b.com'}"]

\* an object source with a url and no name
SrcDictNoName == [type |-> "dict", keys |-> {"url"}, name |-> <<>>, url |-> UrlB, repr |-> "{'url': 'https://b.com'}"]

\* an object source without a url: neither a string nor an object with a url
SrcBad == [type |-> "dict", keys |-> {"name"}, name |-> <<"C">>, url |-> <<>>, repr |-> "{'name': 'C'}"]

SourcePool == {SrcStr, SrcNoScheme, SrcDict, SrcDictNoName, SrcBad}

RECURSIVE SeqsUpTo(_, _)
SeqsUpTo(S, n) ==
    IF n = 0 THEN {<<>>}
    ELSE LET shorter == SeqsUpTo(S, n - 1)
         IN shorter \cup {Append(q, x) : q \in {r \in shorter : Len(r) = n - 1}, x \in S}

SourceLists == SeqsUpTo(SourcePool, MaxSources)

\* hrefs found on a source page
HrefArticle == <<"/", "article", "/", "1">>

HrefNews == <<"https:", "/", "/", "www.", "a.com", "/", "news", "/", "2">>

HrefStory == <<"/", "story", "/", "3">>

HrefAbout == <<"/", "about">>

NoTitle == <<>>

\* a parsed page: its anchors' hrefs, its first h1 (<<>> when there is none, else
\* <<text>>), its og:title content likewise, and the stripped lengths of its <p>
Page(anchors, h1, og, paragraphs) ==
    [anchors |-> anchors, h1 |-> h1, og |-> og, paragraphs |-> paragraphs]

SourcePages ==
    { Page(<<>>, NoTitle, NoTitle, <<>>),
      Page(<<HrefAbout>>, NoTitle, NoTitle, <<>>),
      Page(<<HrefArticle, HrefAbout, HrefArticle>>, NoTitle, NoTitle, <<>>),
      Page(<<HrefAbout, HrefArticle, HrefNews>>, NoTitle, NoTitle, <<>>),
      Page(<<HrefArticle, HrefNews, HrefStory>>, NoTitle, NoTitle, <<>>) }

PageGood == Page(<<>>, <<<<"Title">>>>, NoTitle, <<24, 25>>)

PageOgShort == Page(<<>>, NoTitle, <<<<"OgTitle">>>>, <<24, 0, 24>>)

PageNoTitle == Page(<<>>, NoTitle, NoTitle, <<60>>)

PageBlankH1 == Page(<<>>, <<<<>>>>, <<<<"OgTitle">>>>, <<60>>)

ArticlePages == {PageGood, PageOgShort, PageNoTitle, PageBlankH1}

\* what successive GET attempts on one url answer
AttemptTraces ==
    { <<"200", "200", "200">>,
      <<"500", "exc", "200">>,
      <<"exc", "500", "500">> }

Responses(pages) == [attempts : AttemptTraces, text : pages]

(***************************************************************************)
(* news_extraction_async.py: discovery                                     *)
(***************************************************************************)
NoPage == Page(<<>>, NoTitle, NoTitle, <<>>)

\* a loop over range(1, max_retries): one attempt short
RECURSIVE fetch_attempts_one_short(_, _)
fetch_attempts_one_short(resp, attempt) ==
    IF attempt > MAX_RETRIES - 1
    THEN [none |-> TRUE, text |-> NoPage, tries |-> attempt - 1, raised |-> FALSE]
    ELSE IF resp.attempts[attempt] = "200"
         THEN [none |-> FALSE, text |-> resp.text, tries |-> attempt, raised |-> FALSE]
         ELSE fetch_attempts_one_short(resp, attempt + 1)

\* the attempt loop of fetch_with_retry, from attempt number `attempt` on: a status
\* other than 200 and a fault of the transport ("exc", caught at line 30) both fall
\* through to the next attempt; tries counts the GETs issued
RECURSIVE fetch_attempts(_, _)
fetch_attempts(resp, attempt) ==
    IF attempt > MAX_RETRIES
    THEN [none |-> TRUE, text |-> NoPage, tries |-> attempt - 1, raised |-> FALSE]
    ELSE IF resp.attempts[attempt] = "200"
         THEN [none |-> FALSE, text |-> resp.text, tries |-> attempt, raised |-> FALSE]
         ELSE fetch_attempts(resp, attempt + 1)

fetch_with_retry(resp) == fetch_attempts(resp, 1)

starts_http(href) == Len(href) > 0 /\ Head(href) \in {"http:", "https:"}

\* lines 40-44: a relative href is appended to the base url
resolve(href, base_url) ==
    IF startswith(href, SLASH)
    THEN IF endswith(base_url, SLASH) THEN base_url \o Tail(href) ELSE base_url \o href
    ELSE href

\* line 46, with Python's precedence: (A and B) or C or D
is_article_url(href) ==
    \/ (starts_http(href) /\ contains(href, <<"/", "article">>))
    \/ contains(href, <<"/", "news", "/">>)
    \/ contains(href, <<"/", "story", "/">>)

RECURSIVE links_from(_, _, _)
links_from(anchors, base_url, links) ==
    IF anchors = <<>> THEN links
    ELSE LET href == resolve(Head(anchors), base_url)
         IN links_from(Tail(anchors), base_url,
                IF is_article_url(href) /\ ~(\E k \in 1..Len(links) : links[k] = href)
                THEN Append(links, href) ELSE links)

extract_article_links(soup, base_url) == links_from(soup.anchors, base_url, <<>>)

\* the title of a page: [none |-> TRUE] for Python's None
extract_title(soup) ==
    IF soup.h1 # <<>> THEN [none |-> FALSE, value |-> soup.h1[1]]
    ELSE IF soup.og # <<>> THEN [none |-> FALSE, value |-> soup.og[1]]
    ELSE [none |-> TRUE, value |-> <<>>]

\* links[:n]
take(s, n) == SubSeq(s, 1, IF Len(s) < n THEN Len(s) ELSE n)

\* line 63
source_name_of(source_url) ==
    LET h == host_of(source_url)
    IN [raised |-> h.raised, exc |-> h.exc, value |-> remove_all(h.value, "www.")]

\* a test `title is not None`, which lets an empty title through
article_of_keeps_blank(link, article_html, source_name) ==
    IF article_html.none THEN <<>>
    ELSE LET title == extract_title(article_html.text)
         IN IF title.none THEN <<>>
            ELSE << [url |-> link, title |-> title.value,
                     html |-> article_html.text, source |-> source_name] >>

\* lines 77-86: the article a fetched link yields, as a sequence of 0 or 1 items
article_of(link, article_html, source_name) ==
    IF article_html.none THEN <<>>
    ELSE LET title == extract_title(article_html.text)
         IN IF title.none \/ title.value = <<>> THEN <<>>
            ELSE << [url |-> link, title |-> title.value,
                     html |-> article_html.text, source |-> source_name] >>

\* lines 109-113 for one article: the first source whose url contains the label
RECURSIVE renamed(_, _)
renamed(article, sources) ==
    IF sources = <<>> THEN [raised |-> FALSE, exc |-> <<>>, value |-> article]
    ELSE IF contains(Head(sources).url, article.source)
         THEN IF "name" \in Head(sources).keys
              THEN [raised |-> FALSE, exc |-> <<>>,
                    value |-> [article EXCEPT !.source = Head(sources).name]]
              ELSE [raised |-> TRUE, exc |-> <<"'name'">>, value |-> article]
         ELSE renamed(article, Tail(sources))

\* lines 109-113: the loop over the articles; a KeyError ends it
RECURSIVE update_source_names(_, _)
update_source_names(articles, sources) ==
    IF articles = <<>> THEN [raised |-> FALSE, exc |-> <<>>, value |-> <<>>]
    ELSE LET first == renamed(Head(articles), sources)
             rest == update_source_names(Tail(articles), sources)
         IN IF first.raised THEN [raised |-> TRUE, exc |-> first.exc, value |-> <<>>]
            ELSE IF rest.raised THEN rest
            ELSE [raised |-> FALSE, exc |-> <<>>, value |-> <<first.value>> \o rest.value]

(***************************************************************************)
(* news_extraction_async.py: content extraction                            *)
(***************************************************************************)
\* Python dicts are functions on their keys
has(d, k) == k \in DOMAIN d

\* d[k] = v
put(d, k, v) == (k :> v) @@ d

\* lines 150-154: the stripped non-empty paragraphs joined by single spaces
RECURSIVE joined_len(_, _)
joined_len(paragraphs, n) ==
    IF paragraphs = <<>> THEN n
    ELSE IF Head(paragraphs) = 0 THEN joined_len(Tail(paragraphs), n)
    ELSE joined_len(Tail(paragraphs), IF n = 0 THEN Head(paragraphs) ELSE n + 1 + Head(paragraphs))

content_of(soup) == joined_len(soup.paragraphs, 0)

\* a threshold that rejects a body of exactly MIN_CONTENT_LEN characters
insufficient_inclusive(content) == content = 0 \/ content <= MIN_CONTENT_LEN

\* a threshold one character too low: a body of 49 characters is accepted
insufficient_off_by_one(content) == content = 0 \/ content < MIN_CONTENT_LEN - 1

\* lines 156-160
insufficient(content) == content = 0 \/ content < MIN_CONTENT_LEN

\* a task that fetches the url whether or not the article carries html
extract_article_content_refetches(article, env) ==
    LET fetched == fetch_with_retry(env)
    IN IF fetched.none
       THEN [raised |-> FALSE, exc |-> <<>>, fetches |-> 1,
             value |-> put(article, "error", <<"Failed to fetch article content">>)]
       ELSE IF env.fault
       THEN [raised |-> FALSE, exc |-> <<>>, fetches |-> 1,
             value |-> put(article, "error", <<"Error extracting content: ">> \o env.exc)]
       ELSE LET content == content_of(fetched.text)
            IN [raised |-> FALSE, exc |-> <<>>, fetches |-> 1,
                value |-> IF insufficient(content)
                          THEN put(article, "error", <<"Insufficient content extracted">>)
                          ELSE put(article, "content", content)]

\* a task without the handler of lines 162-163: the fault leaves the task
extract_article_content_propagates(article, env) ==
    LET carried == has(article, "html")
        fetched == IF carried THEN [none |-> FALSE, text |-> article.html]
                   ELSE fetch_with_retry(env)
        fetches == IF carried THEN 0 ELSE 1
    IN IF fetched.none
       THEN [raised |-> FALSE, exc |-> <<>>, fetches |-> fetches,
             value |-> put(article, "error", <<"Failed to fetch article content">>)]
       ELSE IF env.fault
       THEN [raised |-> TRUE, exc |-> env.exc, fetches |-> fetches, value |-> article]
       ELSE LET content == content_of(fetched.text)
            IN [raised |-> FALSE, exc |-> <<>>, fetches |-> fetches,
                value |-> IF insufficient(content)
                          THEN put(article, "error", <<"Insufficient content extracted">>)
                          ELSE put(article, "content", content)]

\* a task that stores the text before it tests its length
extract_article_content_stores_first(article, env) ==
    LET carried == has(article, "html")
        fetched == IF carried THEN [none |-> FALSE, text |-> article.html]
                   ELSE fetch_with_retry(env)
        fetches == IF carried THEN 0 ELSE 1
    IN IF fetched.none
       THEN [raised |-> FALSE, exc |-> <<>>, fetches |-> fetches,
             value |-> put(article, "error", <<"Failed to fetch article content">>)]
       ELSE IF env.fault
       THEN [raised |-> FALSE, exc |-> <<>>, fetches |-> fetches,
             value |-> put(article, "error", <<"Error extracting content: ">> \o env.exc)]
       ELSE LET content == content_of(fetched.text)
                stored == put(article, "content", content)
            IN [raised |-> FALSE, exc |-> <<>>, fetches |-> fetches,
                value |-> IF insufficient(content)
                          THEN put(stored, "error", <<"Insufficient content extracted">>)
                          ELSE stored]

\* lines 129-165, one task of the batch.  env is what the task meets: the answers
\* to the fetch issued when the article carries no html (attempts, text), and whether
\* the parsing of the markup raises (fault, with message exc), which lines 162-163
\* catch.  fetches counts the calls of fetch_with_retry; raised: the task raised
extract_article_content(article, env) ==
    LET carried == has(article, "html")
        fetched == IF carried THEN [none |-> FALSE, text |-> article.html]
                   ELSE fetch_with_retry(env)
        fetches == IF carried THEN 0 ELSE 1
    IN IF fetched.none
       THEN [raised |-> FALSE, exc |-> <<>>, fetches |-> fetches,
             value |-> put(article, "error", <<"Failed to fetch article content">>)]
       ELSE IF env.fault
       THEN [raised |-> FALSE, exc |-> <<>>, fetches |-> fetches,
             value |-> put(article, "error", <<"Error extracting content: ">> \o env.exc)]
       ELSE LET content == content_of(fetched.text)
            IN [raised |-> FALSE, exc |-> <<>>, fetches |-> fetches,
                value |-> IF insufficient(content)
                          THEN put(article, "error", <<"Insufficient content extracted">>)
                          ELSE put(article, "content", content)]

\* lines 183-188: the results that are not exceptions, in the order of the tasks
RECURSIVE processed_articles(_)
processed_articles(results) ==
    IF results = <<>> THEN <<>>
    ELSE (IF Head(results).raised THEN <<>> ELSE <<Head(results).value>>)
         \o processed_articles(Tail(results))

\* lines 177-191: gather runs one task per article and returns their results in the
\* order of the articles
batch_process_articles(articles, envs) ==
    processed_articles([i \in 1..Len(articles) |->
                            extract_article_content(articles[i], envs[i])])

\* article.get('error') is truthy
has_error(article) == has(article, "error") /\ article.error # <<>>

(***************************************************************************)
(* llm_integrations.py                                                     *)
(***************************************************************************)
\* what requests.post / raise_for_status / json answer for one call
LLMOutcomes ==
    { [raised |-> FALSE, exc |-> <<>>, content |-> <<"summary text">>],
      [raised |-> FALSE, exc |-> <<>>, content |-> <<>>],
      [raised |-> TRUE, exc |-> <<"timed out">>, content |-> <<>>],
      [raised |-> TRUE, exc |-> <<"503 Server Error">>, content |-> <<>>] }

\* a failure answered with the text of the empty-response branch
llm_failure_summary_fixed(e) == <<"Summary generation failed - empty response.">>

\* lines 77-79
llm_failure_summary(e) == <<"Summary generation failed: ">> \o e

\* lines 20-79
get_llm_summary(article, key, llm) ==
    IF ~key THEN <<"Summary not available - OpenRouter API key not configured.">>
    ELSE IF ~has(article, "content") \/ article.content = 0
         THEN <<"No content available for summarization.">>
    ELSE IF llm.raised THEN llm_failure_summary(llm.exc)
    ELSE IF llm.content = <<>> THEN <<"Summary generation failed - empty response.">>
    ELSE llm.content

\* the call reaches requests.post (line 65)
llm_posted(article, key) == key /\ has(article, "content") /\ article.content # 0

(***************************************************************************)
(* notifications.py                                                        *)
(***************************************************************************)
MailOutcomes == {"sent", "smtp_error", "auth_error", "format_error"}

\* a transport whose faults are answered True
send_email_reports_success(mail) == TRUE

\* lines 83-112: every fault of the transport is caught and answered False
send_email(mail) == mail = "sent"

\* dict.get(key, default)
get(d, k, default) == IF has(d, k) THEN d[k] ELSE default

\* lines 44-52: the block rendered for each article, with the values it interpolates
format_email_body(summaries) ==
    [i \in 1..Len(summaries) |->
        [title |-> get(summaries[i], "title", <<"Untitled">>),
         source |-> get(summaries[i], "source_name", <<"Unknown">>),
         summary |-> get(summaries[i], "summary", <<"No summary available">>),
         url |-> get(summaries[i], "url", <<"#">>)]]

\* lines 117-121: the call of send_email with the rendered body; a fault of the
\* subject formatting (line 118) comes before the body is rendered
send_email_calls(summaries, mail) ==
    IF mail = "format_error" THEN <<>>
    ELSE << [fn |-> "send_email", arg |-> format_email_body(summaries),
             out |-> IF send_email(mail) THEN "sent" ELSE "failed"] >>

\* a formatting fault that is not caught
send_email_summary_propagates(summaries, mail) ==
    IF mail = "format_error" THEN [raised |-> TRUE, exc |-> <<"'date'">>, value |-> FALSE]
    ELSE [raised |-> FALSE, exc |-> <<>>, value |-> send_email(mail)]

\* lines 116-125: a fault of the formatting is caught and answered False
send_email_summary(summaries, mail) ==
    IF mail = "format_error" THEN [raised |-> FALSE, exc |-> <<>>, value |-> FALSE]
    ELSE [raised |-> FALSE, exc |-> <<>>, value |-> send_email(mail)]

(***************************************************************************)
(* news_workflow.py: the nodes                                             *)
(***************************************************************************)
\* a validation that accepts every object, with or without a url
RECURSIVE normalize_sources_any_dict(_, _)
normalize_sources_any_dict(sources, sources_list) ==
    IF sources = <<>>
    THEN [kind |-> "ok", list |-> sources_list, exc |-> <<>>, bad |-> <<>>]
    ELSE LET source == Head(sources)
         IN IF source.type = "str"
            THEN LET h == host_of(source.url)
                     domain == IF startswith(h.value, WWW) THEN Tail(h.value) ELSE h.value
                 IN IF h.raised
                    THEN [kind |-> "raised", list |-> <<>>, exc |-> h.exc, bad |-> <<>>]
                    ELSE normalize_sources_any_dict(Tail(sources),
                            Append(sources_list,
                                [type |-> "dict", keys |-> {"name", "url"}, name |-> domain,
                                 url |-> source.url, repr |-> source.repr]))
            ELSE normalize_sources_any_dict(Tail(sources), Append(sources_list, source))

\* lines 32-47: the loop over state["sources"]
RECURSIVE normalize_sources(_, _)
normalize_sources(sources, sources_list) ==
    IF sources = <<>>
    THEN [kind |-> "ok", list |-> sources_list, exc |-> <<>>, bad |-> <<>>]
    ELSE LET source == Head(sources)
         IN IF source.type = "str"
            THEN LET h == host_of(source.url)
                     domain == IF startswith(h.value, WWW) THEN Tail(h.value) ELSE h.value
                 IN IF h.raised
                    THEN [kind |-> "raised", list |-> <<>>, exc |-> h.exc, bad |-> <<>>]
                    ELSE normalize_sources(Tail(sources),
                            Append(sources_list,
                                [type |-> "dict", keys |-> {"name", "url"}, name |-> domain,
                                 url |-> source.url, repr |-> source.repr]))
            ELSE IF source.type = "dict" /\ "url" \in source.keys
            THEN normalize_sources(Tail(sources), Append(sources_list, source))
            ELSE [kind |-> "invalid", list |-> <<>>, exc |-> <<>>, bad |-> <<source.repr>>]

\* a handler that raises the fault again
fetch_articles_except_reraises(st, e) == [raised |-> TRUE, state |-> st]

\* lines 58-60
fetch_articles_except(st, e) ==
    [raised |-> FALSE, state |-> [st EXCEPT !.error = <<"Error fetching articles: ">> \o e]]

\* lines 84-86
extract_content_except(st, e) ==
    [raised |-> FALSE, state |-> [st EXCEPT !.error = <<"Error extracting content: ">> \o e]]

\* lines 127-129
send_notifications_except(st, e) ==
    [raised |-> FALSE, state |-> [st EXCEPT !.error = <<"Error sending notifications: ">> \o e]]

\* an end of the node that records no error for an empty result
fetch_articles_finish_silent(st, sources_list, fetched) ==
    LET articles == update_source_names(fetched, sources_list)
    IN IF articles.raised THEN fetch_articles_except(st, articles.exc)
       ELSE [raised |-> FALSE, state |-> [st EXCEPT !.articles = articles.value]]

\* lines 107-116 and 51-56: the end of batch_process_sources and of the node
fetch_articles_finish(st, sources_list, fetched) ==
    LET articles == update_source_names(fetched, sources_list)
    IN IF articles.raised THEN fetch_articles_except(st, articles.exc)
       ELSE [raised |-> FALSE,
             state |-> [st EXCEPT !.articles = articles.value,
                                  !.error = IF articles.value = <<>>
                                            THEN <<"No articles found. Check source configurations.">>
                                            ELSE @]]

\* a stage that starts by clearing the error
extract_content_async_resets_error(st, batch_fault, resps) ==
    IF st.articles = <<>>
    THEN [raised |-> FALSE, state |-> [st EXCEPT !.error = <<>>]]
    ELSE IF batch_fault THEN extract_content_except(st, <<"Session is closed">>)
    ELSE [raised |-> FALSE,
          state |-> [st EXCEPT !.articles = batch_process_articles(st.articles, resps)]]

\* a stage that records its own error whatever error is already set
extract_content_async_overwrites(st, batch_fault, resps) ==
    IF st.articles = <<>>
    THEN [raised |-> FALSE, state |-> [st EXCEPT !.error = <<"No articles to process">>]]
    ELSE IF batch_fault THEN extract_content_except(st, <<"Session is closed">>)
    ELSE [raised |-> FALSE,
          state |-> [st EXCEPT !.articles = batch_process_articles(st.articles, resps)]]

\* a stage that records an error when no article is left without an error
extract_content_async_flags_failures(st, batch_fault, resps) ==
    IF st.articles = <<>>
    THEN [raised |-> FALSE,
          state |-> IF st.error = <<>> THEN [st EXCEPT !.error = <<"No articles to process">>]
                    ELSE st]
    ELSE IF batch_fault THEN extract_content_except(st, <<"Session is closed">>)
    ELSE LET articles_with_content == batch_process_articles(st.articles, resps)
             valid(article) == ~has_error(article)
         IN [raised |-> FALSE,
             state |-> [st EXCEPT !.articles = articles_with_content,
                                  !.error = IF SelectSeq(articles_with_content, valid) = <<>>
                                            THEN <<"All articles had extraction errors">>
                                            ELSE @]]

\* lines 64-88; batch_fault: the batch raises (the session cannot be used)
extract_content_async(st, batch_fault, resps) ==
    IF st.articles = <<>>
    THEN [raised |-> FALSE,
          state |-> IF st.error = <<>> THEN [st EXCEPT !.error = <<"No articles to process">>]
                    ELSE st]
    ELSE IF batch_fault THEN extract_content_except(st, <<"Session is closed">>)
    ELSE [raised |-> FALSE,
          state |-> [st EXCEPT !.articles = batch_process_articles(st.articles, resps)]]

\* lines 98-106: the article is summarized in place
summarized(article, key, llm) ==
    IF has_error(article) THEN article
    ELSE put(article, "summary", get_llm_summary(article, key, llm))

\* a loop that does not skip the articles with an error
summarize_articles_async_keeps_failed(st, key, llms) ==
    IF st.articles = <<>> THEN [raised |-> FALSE, state |-> st]
    ELSE LET articles == [i \in 1..Len(st.articles) |->
                            put(st.articles[i], "summary",
                                get_llm_summary(st.articles[i], key, llms[i]))]
         IN [raised |-> FALSE,
             state |-> [st EXCEPT !.articles = articles, !.summaries = articles]]

\* a loop that appends an article only when the model answered with a text
summarize_articles_async_drops_failed(st, key, llms) ==
    IF st.articles = <<>> THEN [raised |-> FALSE, state |-> st]
    ELSE LET articles == [i \in 1..Len(st.articles) |-> summarized(st.articles[i], key, llms[i])]
             answered(i) == llm_posted(st.articles[i], key) /\ ~llms[i].raised
                            /\ llms[i].content # <<>>
             RECURSIVE kept(_)
             kept(i) == IF i > Len(articles) THEN <<>>
                        ELSE (IF ~has_error(articles[i]) /\ answered(i)
                              THEN <<articles[i]>> ELSE <<>>) \o kept(i + 1)
         IN [raised |-> FALSE,
             state |-> [st EXCEPT !.articles = articles, !.summaries = kept(1)]]

\* lines 90-115; get_llm_summary raises nothing, so lines 111-113 never run
summarize_articles_async(st, key, llms) ==
    IF st.articles = <<>> THEN [raised |-> FALSE, state |-> st]
    ELSE LET articles == [i \in 1..Len(st.articles) |-> summarized(st.articles[i], key, llms[i])]
             skip(article) == ~has_error(article)
         IN [raised |-> FALSE,
             state |-> [st EXCEPT !.articles = articles,
                                  !.summaries = SelectSeq(articles, skip)]]

\* lines 117-131
send_notifications(st, mail) ==
    IF st.summaries = <<>> THEN [raised |-> FALSE, state |-> st]
    ELSE LET email_sent == send_email_summary(st.summaries, mail)
         IN IF email_sent.raised THEN send_notifications_except(st, email_sent.exc)
            ELSE [raised |-> FALSE, state |-> [st EXCEPT !.email_sent = email_sent.value]]

\* a branch that always notifies
should_send_email_always(st) == "has_summaries"

\* lines 134-139
should_send_email(st) == IF st.summaries # <<>> THEN "has_summaries" ELSE "no_summaries"

\* a graph whose edges run the Summarize node before the Extract node
next_node_swapped(node, st) ==
    CASE node = "fetch_articles" -> "summarize_articles"
      [] node = "summarize_articles" -> "extract_content"
      [] node = "extract_content" ->
            IF should_send_email(st) = "has_summaries" THEN "send_notifications" ELSE "END"
      [] node = "send_notifications" -> "END"

\* lines 153-166: the edges of the graph
next_node(node, st) ==
    CASE node = "fetch_articles" -> "extract_content"
      [] node = "extract_content" -> "summarize_articles"
      [] node = "summarize_articles" ->
            IF should_send_email(st) = "has_summaries" THEN "send_notifications" ELSE "END"
      [] node = "send_notifications" -> "END"

\* where the run goes when a node has returned or raised
after_node(node, res) == IF res.raised THEN "raised" ELSE next_node(node, res.state)

(***************************************************************************)
(* The run of main_async                                                   *)
(***************************************************************************)
NoLoc == [sources_list |-> <<>>, i |-> 0, source_name |-> <<>>, links |-> <<>>, articles |-> <<>>]

\* the article links followed so far
RECURSIVE links_served(_)
links_served(log) ==
    IF log = <<>> THEN 0
    ELSE links_served(Tail(log))
         + (IF Head(log).fn = "fetch_with_retry" /\ Head(log).out # "source" THEN 1 ELSE 0)

NoReport == [printed |-> FALSE, articles |-> 0, summaries |-> 0, status |-> <<>>,
             listing |-> <<>>, email |-> <<>>]

Call(fn, arg, out) == [fn |-> fn, arg |-> arg, out |-> out]

\* main.py lines 18-24, with NEWS_SOURCES and OPENROUTER_API_KEY as configured
Init ==
    /\ pc = "fetch_articles"
    /\ \E sources \in SourceLists :
          state = [sources |-> sources, articles |-> <<>>, summaries |-> <<>>,
                   email_sent |-> FALSE, error |-> <<>>]
    /\ api_key \in BOOLEAN
    /\ loc = NoLoc
    /\ calls = <<>>
    /\ nodes_run = <<>>
    /\ report = NoReport

\* fetch_articles (news_extraction_async.py lines 62-63) moves to source number i,
\* or, past the last source, returns to batch_process_sources and the node ends
fetch_next(st, sources_list, i, articles) ==
    IF i > Len(sources_list)
    THEN LET res == fetch_articles_finish(st, sources_list, articles)
             named == update_source_names(articles, sources_list)
         IN [pc |-> after_node("fetch_articles", res), state |-> res.state, loc |-> NoLoc,
             log |-> << Call("batch_process_sources", named.value,
                             IF named.raised THEN "raised" ELSE "returned") >>]
    ELSE LET name == source_name_of(sources_list[i].url)
         IN IF name.raised
            THEN LET res == fetch_articles_except(st, name.exc)
                 IN [pc |-> after_node("fetch_articles", res), state |-> res.state, loc |-> NoLoc,
                     log |-> << Call("batch_process_sources", <<>>, "raised") >>]
            ELSE [pc |-> "fetch_source", state |-> st,
                  loc |-> [sources_list |-> sources_list, i |-> i, source_name |-> name.value,
                           links |-> <<>>, articles |-> articles],
                  log |-> <<>>]

\* the node fetch_articles_async up to its first fetch (news_workflow.py lines 25-50)
fetch_articles_begin(st) ==
    IF st.sources = <<>>
    THEN LET res == [raised |-> FALSE, state |-> [st EXCEPT !.error = <<"No sources provided.">>]]
         IN [pc |-> after_node("fetch_articles", res), state |-> res.state, loc |-> NoLoc,
             log |-> <<>>]
    ELSE LET n == normalize_sources(st.sources, <<>>)
         IN IF n.kind = "invalid"
            THEN LET res == [raised |-> FALSE,
                             state |-> [st EXCEPT !.error = <<"Invalid source format: ">> \o n.bad]]
                 IN [pc |-> after_node("fetch_articles", res), state |-> res.state, loc |-> NoLoc,
                     log |-> <<>>]
            ELSE IF n.kind = "raised"
            THEN LET res == fetch_articles_except(st, n.exc)
                 IN [pc |-> after_node("fetch_articles", res), state |-> res.state, loc |-> NoLoc,
                     log |-> <<>>]
            ELSE fetch_next(st, n.list, 1, <<>>)

FetchArticles ==
    /\ pc = "fetch_articles"
    /\ LET step == fetch_articles_begin(state)
       IN /\ pc' = step.pc
          /\ state' = step.state
          /\ loc' = step.loc
          /\ calls' = calls \o step.log
    /\ nodes_run' = Append(nodes_run, "fetch_articles")
    /\ UNCHANGED <<api_key, report>>

\* news_extraction_async.py lines 65-72: the page of source number loc.i
FetchSourcePage ==
    /\ pc = "fetch_source"
    /\ \E resp \in Responses(SourcePages) :
          LET source_url == loc.sources_list[loc.i].url
              html == fetch_with_retry(resp)
              links == IF html.none THEN <<>>
                       ELSE take(extract_article_links(html.text, source_url),
                                 MAX_ARTICLES_PER_SOURCE)
              step == IF links = <<>>
                      THEN fetch_next(state, loc.sources_list, loc.i + 1, loc.articles)
                      ELSE [pc |-> "fetch_link", state |-> state,
                            loc |-> [loc EXCEPT !.links = links], log |-> <<>>]
          IN /\ links_served(calls) + Len(links) <= MaxLinks
             /\ pc' = step.pc
             /\ state' = step.state
             /\ loc' = step.loc
             /\ calls' = Append(calls, Call("fetch_with_retry", source_url, "source")) \o step.log
    /\ UNCHANGED <<api_key, nodes_run, report>>

\* the web answers with an article: a 200 within the attempts made, a title, and a
\* body of at least MIN_CONTENT_LEN characters
good_article(resp) ==
    /\ \E k \in 1..MAX_RETRIES : resp.attempts[k] = "200"
    /\ \/ resp.text.h1 # <<>> /\ resp.text.h1[1] # <<>>
       \/ resp.text.h1 = <<>> /\ resp.text.og # <<>> /\ resp.text.og[1] # <<>>
    /\ content_of(resp.text) >= MIN_CONTENT_LEN

\* what the web serves for a link: nothing within the attempts made ("failed link"),
\* a page without a title ("untitled link"), a titled page with a body shorter than
\* MIN_CONTENT_LEN ("short link"), or an article ("good link")
link_kind(resp) ==
    IF good_article(resp) THEN "good link"
    ELSE IF \A k \in 1..MAX_RETRIES : resp.attempts[k] # "200" THEN "failed link"
    ELSE IF resp.text.h1 = <<>> /\ resp.text.og = <<>> THEN "untitled link"
    ELSE IF resp.text.h1 # <<>> /\ resp.text.h1[1] = <<>> THEN "untitled link"
    ELSE IF resp.text.h1 = <<>> /\ resp.text.og[1] = <<>> THEN "untitled link"
    ELSE "short link"

\* news_extraction_async.py lines 74-86: the page of the next link of the source
FetchLinkPage ==
    /\ pc = "fetch_link"
    /\ \E resp \in Responses(ArticlePages) :
          LET link == Head(loc.links)
              article_html == fetch_with_retry(resp)
              articles == loc.articles \o article_of(link, article_html, loc.source_name)
              step == IF Tail(loc.links) = <<>>
                      THEN fetch_next(state, loc.sources_list, loc.i + 1, articles)
                      ELSE [pc |-> "fetch_link", state |-> state,
                            loc |-> [loc EXCEPT !.links = Tail(loc.links),
                                                !.articles = articles],
                            log |-> <<>>]
          IN /\ pc' = step.pc
             /\ state' = step.state
             /\ loc' = step.loc
             /\ calls' = Append(calls, Call("fetch_with_retry", link, link_kind(resp))) \o step.log
    /\ UNCHANGED <<api_key, nodes_run, report>>

NoResponse == [attempts |-> <<"exc", "exc", "exc">>, text |-> NoPage]

\* what one task of the batch meets: the answers of the web and whether the parser
\* raises on the markup
task_env(resp, fault) ==
    [attempts |-> resp.attempts, text |-> resp.text, fault |-> fault,
     exc |-> IF fault THEN <<"maximum recursion depth exceeded">> ELSE <<>>]

\* the articles that carry no html are fetched by extract_article_content
without_html(articles) == {i \in 1..Len(articles) : ~has(articles[i], "html")}

ExtractContent ==
    /\ pc = "extract_content"
    /\ \E batch_fault \in BOOLEAN :
       \E fresh \in [without_html(state.articles) -> Responses(ArticlePages)] :
       \E faulty \in SUBSET (1..Len(state.articles)) :
          LET resps == [i \in 1..Len(state.articles) |->
                          task_env(IF i \in DOMAIN fresh THEN fresh[i] ELSE NoResponse,
                                   i \in faulty)]
              res == extract_content_async(state, batch_fault, resps)
          IN /\ state.articles = <<>> => ~batch_fault
             /\ pc' = after_node("extract_content", res)
             /\ state' = res.state
             /\ calls' = IF state.articles = <<>> THEN calls
                         ELSE Append(calls, Call("batch_process_articles",
                                                 IF batch_fault THEN {} ELSE faulty,
                                                 IF batch_fault THEN "raised" ELSE "returned"))
    /\ nodes_run' = Append(nodes_run, "extract_content")
    /\ UNCHANGED <<loc, api_key, report>>

\* the calls of get_llm_summary made by the loop of summarize_articles_async
RECURSIVE llm_calls(_, _, _, _)
llm_calls(articles, key, llms, i) ==
    IF i > Len(articles) THEN <<>>
    ELSE (IF has_error(articles[i]) THEN <<>>
          ELSE << Call("get_llm_summary", articles[i].url,
                       IF ~llm_posted(articles[i], key) THEN "no request"
                       ELSE IF llms[i].raised THEN "raised"
                       ELSE IF llms[i].content = <<>> THEN "empty" ELSE "content") >>)
         \o llm_calls(articles, key, llms, i + 1)

\* the articles for which get_llm_summary posts a request
posted(articles, key) ==
    {i \in 1..Len(articles) : ~has_error(articles[i]) /\ llm_posted(articles[i], key)}

NoLLM == [raised |-> FALSE, exc |-> <<>>, content |-> <<>>]

SummarizeArticles ==
    /\ pc = "summarize_articles"
    /\ \E answers \in [posted(state.articles, api_key) -> LLMOutcomes] :
          LET llms == [i \in 1..Len(state.articles) |->
                         IF i \in DOMAIN answers THEN answers[i] ELSE NoLLM]
              res == summarize_articles_async(state, api_key, llms)
          IN /\ pc' = after_node("summarize_articles", res)
             /\ state' = res.state
             /\ calls' = calls \o llm_calls(state.articles, api_key, llms, 1)
    /\ nodes_run' = Append(nodes_run, "summarize_articles")
    /\ UNCHANGED <<loc, api_key, report>>

SendNotifications ==
    /\ pc = "send_notifications"
    /\ \E mail \in MailOutcomes :
          LET res == send_notifications(state, mail)
          IN /\ pc' = after_node("send_notifications", res)
             /\ state' = res.state
             /\ calls' = IF state.summaries = <<>> THEN calls
                         ELSE Append(calls \o send_email_calls(state.summaries, mail),
                                     Call("send_email_summary", state.summaries,
                                          IF mail = "sent" THEN "delivered" ELSE "fault"))
    /\ nodes_run' = Append(nodes_run, "send_notifications")
    /\ UNCHANGED <<loc, api_key, report>>

\* main.py lines 38-41
status_line(result) ==
    IF result.error # <<>> THEN <<"Error: ">> \o result.error
    ELSE <<"Workflow completed successfully.">>

\* main.py lines 56-59
email_line(result) ==
    IF result.email_sent THEN <<"Email was sent by the workflow.">>
    ELSE IF result.summaries # <<>>
         THEN <<"Warning: Workflow has summaries but email wasn't sent.">>
    ELSE <<>>

\* main.py lines 33-61: the console report of the result
Report ==
    /\ pc = "END"
    /\ pc' = "exit"
    /\ report' = [printed |-> TRUE,
                  articles |-> Len(state.articles),
                  summaries |-> Len(state.summaries),
                  status |-> status_line(state),
                  listing |-> [i \in 1..Len(state.summaries) |->
                                 [title |-> state.summaries[i].title,
                                  source |-> state.summaries[i].source,
                                  url |-> state.summaries[i].url,
                                  summary |-> state.summaries[i].summary]],
                  email |-> email_line(state)]
    /\ UNCHANGED <<state, loc, api_key, calls, nodes_run>>

Next ==
    \/ FetchArticles
    \/ FetchSourcePage
    \/ FetchLinkPage
    \/ ExtractContent
    \/ SummarizeArticles
    \/ SendNotifications
    \/ Report

Spec == Init /\ [][Next]_vars

(***************************************************************************)
(* The functions of news_extraction_async.py called on their own, with     *)
(* arguments drawn from bounded sets                                       *)
(***************************************************************************)
\* every sequence of answers to MAX_RETRIES attempts
AllTraces == [1..MAX_RETRIES -> {"200", "500", "exc"}]

ParagraphLens == {0, 24, 25, 49, 50}

\* titled pages with up to MaxParagraphs paragraphs
BodyPages ==
    {Page(<<>>, <<<<"Title">>>>, NoTitle, ps) : ps \in SeqsUpTo(ParagraphLens, MaxParagraphs)}

\* an article as fetch_articles builds it, and one whose markup is still to be fetched
UnitArticles ==
    {[url |-> UrlB \o HrefArticle, title |-> <<"Title">>, source |-> <<"B">>, html |-> h] :
        h \in BodyPages}
    \cup {[url |-> UrlB \o HrefArticle, title |-> <<"Title">>, source |-> <<"B">>]}

\* hrefs that are not absolute and do not start with '/'
HrefRelNews == <<"section", "/", "news", "/", "4">>

HrefRelArticle == <<"x", "/", "article", "/", "5">>

HrefPool == {HrefArticle, HrefNews, HrefStory, HrefAbout, HrefRelNews, HrefRelArticle}

LinkPages == {Page(a, NoTitle, NoTitle, <<>>) : a \in SeqsUpTo(HrefPool, MaxAnchors)}

BaseUrls == {UrlA, UrlB \o SLASH}

\* a source whose host contains the host of SrcDict
SrcNested == [type |-> "dict", keys |-> {"name", "url"}, name |-> <<"News">>, url |-> <<"https:", "/", "/", "news.", "b.com">>, repr |-> "{'name': 'News', 'url': 'https://news.b.com'}"]

\* a string source whose host has 'www.' after its first label
SrcInnerWww == [type |-> "str", keys |-> {}, name |-> <<>>, url |-> <<"https:", "/", "/", "news.", "www.", "x.com">>, repr |-> "'https://news.www.x.com'"]

NamedSources == {SrcStr, SrcDict, SrcNested, SrcInnerWww}

UnitInit ==
    /\ state = [sources |-> <<>>, articles |-> <<>>, summaries |-> <<>>,
                email_sent |-> FALSE, error |-> <<>>]
    /\ api_key = FALSE
    /\ calls = <<>>
    /\ nodes_run = <<>>
    /\ report = NoReport
    /\ \/ /\ pc = "call fetch_with_retry"
          /\ loc \in [resp : [attempts : AllTraces, text : ArticlePages]]
       \/ /\ pc = "call extract_article_content"
          /\ loc \in [article : UnitArticles, runs : {0}, fetches : {0}]
       \/ /\ pc = "call extract_article_links"
          /\ loc \in [soup : LinkPages, base_url : BaseUrls]
       \/ /\ pc = "call batch_process_sources"
          /\ loc \in [sources : SeqsUpTo(NamedSources, MaxSources) \ {<<>>}]

\* news_extraction_async.py lines 22-32
CallFetchWithRetry ==
    /\ pc = "call fetch_with_retry"
    /\ pc' = "returned"
    /\ calls' = << Call("fetch_with_retry", loc.resp, fetch_with_retry(loc.resp)) >>
    /\ UNCHANGED <<state, loc, api_key, nodes_run, report>>

\* news_extraction_async.py lines 118-165, run again on its own result up to MaxRuns
\* times; fetches adds up the calls of fetch_with_retry
CallExtractArticleContent ==
    /\ pc = "call extract_article_content"
    /\ \E fault \in BOOLEAN :
       \E resp \in IF has(loc.article, "html") THEN {NoResponse} ELSE Responses(ArticlePages) :
          LET env == task_env(resp, fault)
              res == extract_article_content(loc.article, env)
          IN /\ calls' = << Call("extract_article_content",
                                 [article |-> loc.article, env |-> env], res) >>
             /\ loc' = [article |-> res.value, runs |-> loc.runs + 1,
                        fetches |-> loc.fetches + res.fetches]
             /\ pc' = IF loc.runs + 1 < MaxRuns THEN pc ELSE "returned"
    /\ UNCHANGED <<state, api_key, nodes_run, report>>

\* news_extraction_async.py lines 34-49, and the links fetch_articles takes (line 72)
CallExtractArticleLinks ==
    /\ pc = "call extract_article_links"
    /\ pc' = "returned"
    /\ LET links == extract_article_links(loc.soup, loc.base_url)
       IN calls' = << Call("extract_article_links", loc,
                          [links |-> links,
                           fetched |-> take(links, MAX_ARTICLES_PER_SOURCE)]) >>
    /\ UNCHANGED <<state, loc, api_key, nodes_run, report>>

\* news_workflow.py lines 32-50 and news_extraction_async.py lines 59-116, when the
\* page of every source links one article: the sources are normalized, fetch_articles
\* labels the article of each source (line 63), and batch_process_sources renames
CallBatchProcessSources ==
    /\ pc = "call batch_process_sources"
    /\ pc' = "returned"
    /\ LET sources_list == normalize_sources(loc.sources, <<>>).list
           articles == [i \in 1..Len(sources_list) |->
                          article_of(sources_list[i].url \o HrefArticle,
                                     [none |-> FALSE, text |-> PageGood],
                                     source_name_of(sources_list[i].url).value)[1]]
       IN calls' = << Call("batch_process_sources", sources_list,
                          update_source_names(articles, sources_list)) >>
    /\ UNCHANGED <<state, loc, api_key, nodes_run, report>>

UnitNext ==
    \/ CallFetchWithRetry
    \/ CallExtractArticleContent
    \/ CallExtractArticleLinks
    \/ CallBatchProcessSources

UnitSpec == UnitInit /\ [][UnitNext]_vars

(***************************************************************************)
(* Properties                                                              *)
(***************************************************************************)
Finished == pc \in {"END", "exit"}

CallsOf(fn) == SelectSeq(calls, LAMBDA c : c.fn = fn)

ran(node) == Len(SelectSeq(nodes_run, LAMBDA n : n = node))

NotifyCalls == CallsOf("send_email_summary")

LLMLog == CallsOf("get_llm_summary")

LinkFetches == SelectSeq(calls, LAMBDA c : c.fn = "fetch_with_retry" /\ c.out # "source")

Logged(fn, out) == \E k \in 1..Len(calls) : calls[k].fn = fn /\ calls[k].out = out

\* C1: the Notify stage is invoked if and only if summaries is non-empty after the
\* Summarize stage: never with summaries empty, and exactly once, with the whole
\* summaries sequence, when it is non-empty.
C1_NotifyIffSummaries ==
    /\ Len(NotifyCalls) = ran("send_notifications")
    /\ Len(NotifyCalls) <= 1
    /\ \A k \in 1..Len(NotifyCalls) : NotifyCalls[k].arg = state.summaries
    /\ pc = "send_notifications" => state.summaries # <<>>
    /\ Finished => (state.summaries # <<>> <=> Len(NotifyCalls) = 1)

C1_Witness ==
    /\ pc = "exit"
    /\ Len(state.summaries) = 1
    /\ Len(NotifyCalls) = 1
    /\ Len(NotifyCalls[1].arg) = 1

invalid_source(source) ==
    ~(source.type = "str") /\ ~(source.type = "dict" /\ "url" \in source.keys)

HasInvalidSource == \E i \in 1..Len(state.sources) : invalid_source(state.sources[i])

\* C2 as stated: with a source that is neither a string nor an object with a url, the
\* run ends with error set, no source fetched, and no stage after Fetch run.
C2_LaterStagesSkipped ==
    (HasInvalidSource /\ Finished) =>
        /\ state.error # <<>>
        /\ CallsOf("fetch_with_retry") = <<>>
        /\ nodes_run = <<"fetch_articles">>

\* C2 amended: with such a source the Fetch stage sets error and calls no collaborator
\* (no source is fetched); the ExtractContent and Summarize nodes are still run by the
\* graph but call nothing and leave the state as Fetch left it; Notify is not run.
C2_InvalidSourceStopsWork ==
    HasInvalidSource =>
        /\ calls = <<>>
        /\ ran("send_notifications") = 0
        /\ pc \in {"fetch_articles", "extract_content", "summarize_articles", "END", "exit"}
        /\ pc # "fetch_articles" =>
              /\ state.error # <<>>
              /\ state.error[1] \in {"Invalid source format: ", "Error fetching articles: "}
              /\ state.articles = <<>>
              /\ state.summaries = <<>>
              /\ ~state.email_sent
        /\ Finished =>
              nodes_run = <<"fetch_articles", "extract_content", "summarize_articles">>

C2_Witness ==
    /\ pc = "exit"
    /\ Len(state.sources) = 2
    /\ ~invalid_source(state.sources[1])
    /\ invalid_source(state.sources[2])
    /\ state.error[1] = "Invalid source format: "

\* C3: a run started with zero sources ends at Done with summaries empty, email_sent
\* false and error non-empty.
C3_ZeroSources ==
    state.sources = <<>> =>
        /\ pc \in {"fetch_articles", "extract_content", "summarize_articles", "END", "exit"}
        /\ pc = "exit" \/ ENABLED Next
        /\ Finished => state.summaries = <<>> /\ ~state.email_sent /\ state.error # <<>>

C3_Witness == state.sources = <<>> /\ pc = "exit" /\ state.error # <<>>

NoArticlesFound == <<"No articles found. Check source configurations.">>

\* batch_process_sources returned an empty list
ZeroDiscovered ==
    \E k \in 1..Len(calls) :
        calls[k].fn = "batch_process_sources" /\ calls[k].out = "returned" /\ calls[k].arg = <<>>

\* C4: when Fetch discovers zero items it sets error to the 'No articles found'
\* message; ExtractContent and Summarize then change nothing (items, summaries,
\* email_sent and error stay as Fetch left them) and the run ends without Notify.
C4_ZeroItemsNoOps ==
    ZeroDiscovered =>
        /\ state = [sources |-> state.sources, articles |-> <<>>, summaries |-> <<>>,
                    email_sent |-> FALSE, error |-> NoArticlesFound]
        /\ pc \in {"extract_content", "summarize_articles", "END", "exit"}
        /\ pc = "exit" \/ ENABLED Next
        /\ ran("send_notifications") = 0
        /\ CallsOf("batch_process_articles") = <<>>
        /\ LLMLog = <<>>

C4_Witness ==
    /\ ZeroDiscovered
    /\ pc = "exit"
    /\ nodes_run = <<"fetch_articles", "extract_content", "summarize_articles">>

\* C5: whenever Notify is entered the run goes on to Done; a delivery failure is
\* recorded only as email_sent = false, error is left as it was and nothing is raised.
C5_NotifyNeverFatal ==
    [][pc = "send_notifications" =>
          /\ pc' = "END"
          /\ state'.error = state.error
          /\ state'.articles = state.articles
          /\ state'.summaries = state.summaries
          /\ calls'[Len(calls')].fn = "send_email_summary"
          /\ state'.email_sent <=> calls'[Len(calls')].out = "delivered"]_vars

C5_Witness ==
    /\ pc = "exit"
    /\ Logged("send_email_summary", "fault")
    /\ ~state.email_sent

\* the summarized items whose request to the model raised
Faulted == {k \in 1..Len(LLMLog) : LLMLog[k].out = "raised"}

\* C6 as stated: every item whose LLM call failed carries one fixed placeholder string.
C6_FixedPlaceholder ==
    \A j \in Faulted : \A k \in Faulted :
        state.summaries[j].summary = state.summaries[k].summary

\* C6 amended: an item whose LLM call failed is still in summaries, with as summary
\* the prefix 'Summary generation failed: ' followed by the message of the fault, and
\* Notify is still taken.
C6_FailureKeepsItem ==
    /\ Len(LLMLog) = Len(state.summaries)
    /\ pc # "raised"
    /\ \A k \in Faulted :
          /\ state.summaries[k].url = LLMLog[k].arg
          /\ Len(state.summaries[k].summary) = 2
          /\ state.summaries[k].summary[1] = "Summary generation failed: "
          /\ state.summaries[k].summary[2] \in {"timed out", "503 Server Error"}
          /\ \E i \in 1..Len(state.articles) : state.articles[i] = state.summaries[k]
    /\ Faulted # {} =>
          \/ pc = "send_notifications"
          \/ Finished /\ ran("send_notifications") = 1

C6_Witness ==
    /\ pc = "exit"
    /\ Faulted # {}
    /\ Len(NotifyCalls) = 1

\* a Source of the data model: a string url, or an object with a name and a url
well_formed(source) ==
    \/ source.type = "str" /\ contains(source.url, DSLASH)
    \/ source.type = "dict" /\ {"name", "url"} \subseteq source.keys

\* the end-to-end scenario: one source, n >= 1 links followed, each answering with a
\* titled article of at least 50 characters, extraction and mail without fault
HappyRun ==
    /\ Finished
    /\ Len(state.sources) = 1
    /\ well_formed(state.sources[1])
    /\ Len(LinkFetches) >= 1
    /\ \A k \in 1..Len(LinkFetches) : LinkFetches[k].out = "good link"
    /\ \A k \in 1..Len(calls) :
          calls[k].fn = "batch_process_articles" =>
              calls[k].out = "returned" /\ calls[k].arg = {}
    /\ ~Logged("send_email_summary", "fault")

\* C7: in the end-to-end scenario with n links (2 in particular) the final state has
\* n articles, n summaries, email_sent true and error empty, whatever text the
\* summarizer returns.
C7_EndToEnd ==
    HappyRun =>
        /\ Len(state.articles) = Len(LinkFetches)
        /\ Len(state.summaries) = Len(LinkFetches)
        /\ state.email_sent
        /\ state.error = <<>>

C7_Witness ==
    /\ HappyRun
    /\ pc = "exit"
    /\ Len(LinkFetches) = 2
    /\ Len(state.summaries) = 2
    /\ \A k \in 1..Len(LLMLog) : LLMLog[k].out = "content"

\* the Extract stage returned and every item carries an extraction error
AllFailedExtraction ==
    /\ Logged("batch_process_articles", "returned")
    /\ state.articles # <<>>
    /\ \A i \in 1..Len(state.articles) : has_error(state.articles[i])

\* C8 as stated: when every fetched item fails extraction, error is set after the
\* Extract stage and the final report prints it.
C8_AllFailedRecorded ==
    AllFailedExtraction =>
        /\ state.error # <<>>
        /\ report.printed => report.status[1] = "Error: "

\* C8 amended: when every fetched item fails extraction the stage only logs a warning;
\* error stays empty, the run continues to Summarize, which calls no summarizer and
\* leaves summaries empty, Notify is skipped and the report prints success.
C8_AllFailedUnrecorded ==
    AllFailedExtraction =>
        /\ state.error = <<>>
        /\ pc \in {"summarize_articles", "END", "exit"}
        /\ state.summaries = <<>>
        /\ LLMLog = <<>>
        /\ ran("send_notifications") = 0
        /\ report.printed =>
              /\ report.status = <<"Workflow completed successfully.">>
              /\ report.articles = Len(state.articles)
              /\ report.summaries = 0

C8_Witness ==
    /\ AllFailedExtraction
    /\ report.printed
    /\ ran("summarize_articles") = 1

\* C9: once error is non-empty no later step clears or replaces it.
C9_ErrorNeverOverwritten ==
    [][state.error # <<>> => state'.error = state.error]_vars

C9_Witness ==
    /\ pc = "exit"
    /\ state.error # <<>>
    /\ state.error[1] = "Error extracting content: "
    /\ ran("send_notifications") = 1

\* a string source without '//' is reached by the validation loop
ParseFault ==
    \E i \in 1..Len(state.sources) :
        /\ state.sources[i].type = "str"
        /\ ~contains(state.sources[i].url, DSLASH)
        /\ \A j \in 1..(i - 1) : ~invalid_source(state.sources[j])

\* C10: no fault leaves a stage: the run never ends with an escaped exception, it can
\* always go on until the report is printed (the first node is enabled by its pc
\* alone), and each fault is encoded in error, in the affected item or in email_sent.
C10_NoFaultEscapes ==
    /\ pc # "raised"
    /\ pc \in {"fetch_articles", "exit"} \/ ENABLED Next
    /\ (ParseFault /\ pc # "fetch_articles") =>
          state.error = <<"Error fetching articles: ", "list index out of range">>
    /\ Logged("batch_process_sources", "raised") =>
          state.error # <<>> /\ state.error[1] = "Error fetching articles: "
    /\ Logged("batch_process_articles", "raised") =>
          state.error # <<>> /\ state.error[1] = "Error extracting content: "
    /\ \A k \in Faulted : state.summaries[k].summary[1] = "Summary generation failed: "
    /\ Logged("send_email_summary", "fault") => Finished /\ ~state.email_sent

C10_Witness ==
    /\ pc = "exit"
    /\ Faulted # {}
    /\ Logged("send_email_summary", "fault")

\* the items the Fetch stage returned
Discovered ==
    LET batches == CallsOf("batch_process_sources")
    IN IF batches = <<>> THEN <<>> ELSE batches[1].arg

\* the items of the state that carry no extraction error
WithoutError == SelectSeq(state.articles, LAMBDA a : ~has_error(a))

\* C11: after Extract every discovered item is still in items, in the order of
\* discovery; after Summarize the items with an extraction error carry no summary and
\* were not passed to the summarizer, and summaries is exactly the subsequence of the
\* items without extraction error, in the order of the items.
C11_ErrorItemsKeptNotSummarized ==
    /\ ran("extract_content") = 1 =>
          /\ Len(state.articles) = Len(Discovered)
          /\ \A i \in 1..Len(state.articles) :
                /\ state.articles[i].url = Discovered[i].url
                /\ state.articles[i].title = Discovered[i].title
                /\ state.articles[i].source = Discovered[i].source
    /\ ran("summarize_articles") = 0 => state.summaries = <<>> /\ LLMLog = <<>>
    /\ ran("summarize_articles") = 1 =>
          /\ state.summaries = WithoutError
          /\ Len(LLMLog) = Len(WithoutError)
          /\ \A k \in 1..Len(LLMLog) : LLMLog[k].arg = WithoutError[k].url
          /\ \A i \in 1..Len(state.articles) :
                has_error(state.articles[i]) => ~has(state.articles[i], "summary")

C11_Witness ==
    /\ pc = "exit"
    /\ Len(state.articles) = 2
    /\ has_error(state.articles[1])
    /\ ~has_error(state.articles[2])
    /\ Len(state.summaries) = 1
    /\ state.summaries[1] = state.articles[2]

NoKeySummary == <<"Summary not available - OpenRouter API key not configured.">>

NoContentSummary == <<"No content available for summarization.">>

EmptyResponseSummary == <<"Summary generation failed - empty response.">>

\* one of the texts get_llm_summary answers in place of a summary
is_placeholder(summary) ==
    \/ summary \in {NoKeySummary, NoContentSummary, EmptyResponseSummary}
    \/ summary # <<>> /\ summary[1] = "Summary generation failed: "

\* C12 as stated: no item of summaries has a failure placeholder as its summary.
C12_NoPlaceholders ==
    \A k \in 1..Len(state.summaries) : ~is_placeholder(state.summaries[k].summary)

\* C12 amended: summaries holds every item without extraction error, each with the
\* string the summarizer returned for it: the text of the model when the request was
\* answered with one, and otherwise the failure placeholder of its case (missing API
\* key, no content, empty model response, transport fault); no such item is dropped.
C12_PlaceholdersKept ==
    ran("summarize_articles") = 1 =>
        /\ Len(state.summaries) = Len(WithoutError)
        /\ Len(LLMLog) = Len(state.summaries)
        /\ \A k \in 1..Len(state.summaries) :
              LET summary == state.summaries[k].summary
                  out == LLMLog[k].out
              IN /\ out = "content" => ~is_placeholder(summary) /\ summary # <<>>
                 /\ out = "empty" => summary = EmptyResponseSummary
                 /\ out = "raised" => Len(summary) = 2 /\ summary[1] = "Summary generation failed: "
                 /\ out = "no request" =>
                       summary = IF ~api_key THEN NoKeySummary ELSE NoContentSummary

C12_Witness ==
    /\ pc = "exit"
    /\ Len(state.summaries) = 2
    /\ is_placeholder(state.summaries[1].summary)
    /\ ~is_placeholder(state.summaries[2].summary)
    /\ Len(NotifyCalls) = 1

\* the bodies handed to send_email
Bodies == CallsOf("send_email")

\* C13: the body rendered by the Notifier lists, for every item of summaries, the
\* item's title, its source label as set at discovery, its summary and its link.
C13_BodyListsItemValues ==
    \A k \in 1..Len(Bodies) :
        LET body == Bodies[k].arg
        IN /\ Len(body) = Len(state.summaries)
           /\ \A i \in 1..Len(body) :
                 /\ body[i].title = state.summaries[i].title
                 /\ body[i].source = state.summaries[i].source
                 /\ body[i].summary = state.summaries[i].summary
                 /\ body[i].url = state.summaries[i].url

\* the calls of fetch_with_retry made on its own
FetchCalls == CallsOf("fetch_with_retry")

\* C14: fetch_with_retry makes at most MAX_RETRIES (3) attempts, one per answer that
\* is not a 200 or that is a fault of the transport; it stops at the first 200 and
\* returns its text, returns None when no attempt answers 200, and raises nothing.
C14_BoundedRetries ==
    \A k \in 1..Len(FetchCalls) :
        LET resp == FetchCalls[k].arg
            html == FetchCalls[k].out
            ok == {a \in 1..3 : resp.attempts[a] = "200"}
        IN /\ ~html.raised
           /\ html.tries \in 1..3
           /\ ok = {} => html.none /\ html.tries = 3
           /\ ok # {} =>
                 /\ ~html.none
                 /\ html.text = resp.text
                 /\ html.tries \in ok
                 /\ \A a \in ok : html.tries <= a

C14_Witness ==
    /\ Len(FetchCalls) = 1
    /\ FetchCalls[1].arg.attempts = <<"500", "exc", "200">>
    /\ FetchCalls[1].out.tries = 3
    /\ ~FetchCalls[1].out.none

\* the calls of extract_article_content made on its own
ExtractCalls == SelectSeq(calls, LAMBDA c : c.fn = "extract_article_content")

\* the markup a call of extract_article_content works on: <<text>>, or <<>> when the
\* fetch of an article without html fails
markup_of(call) ==
    IF has(call.arg.article, "html") THEN <<call.arg.article.html>>
    ELSE IF \E a \in 1..3 : call.arg.env.attempts[a] = "200" THEN <<call.arg.env.text>>
    ELSE <<>>

\* C15: for an item without an earlier extraction outcome whose markup is parsed
\* without fault, extraction sets content and no error when the cleaned text has 50
\* characters or more (50 in particular), and sets error to 'Insufficient content
\* extracted' and no content when it is empty or shorter (49 in particular).
C15_Threshold ==
    \A k \in 1..Len(ExtractCalls) :
        LET article == ExtractCalls[k].arg.article
            result == ExtractCalls[k].out.value
            markup == markup_of(ExtractCalls[k])
        IN (/\ markup # <<>>
            /\ ~ExtractCalls[k].arg.env.fault
            /\ ~has(article, "error")
            /\ ~has(article, "content")) =>
               LET n == content_of(markup[1])
               IN /\ ~ExtractCalls[k].out.raised
                  /\ n >= 50 =>
                        /\ has(result, "content")
                        /\ result.content = n
                        /\ ~has(result, "error")
                  /\ n < 50 =>
                        /\ has(result, "error")
                        /\ result.error = <<"Insufficient content extracted">>
                        /\ ~has(result, "content")

C15_Witness ==
    /\ Len(ExtractCalls) = 1
    /\ has(ExtractCalls[1].arg.article, "html")
    /\ ExtractCalls[1].arg.article.html.paragraphs = <<24, 25>>
    /\ ~ExtractCalls[1].arg.env.fault
    /\ ExtractCalls[1].out.value.content = 50

\* C16: a run of the extraction on an item that carries markup issues no fetch, also
\* when it is run again on its own result; a run on an item without markup issues one.
C16_NoRefetch ==
    /\ \A k \in 1..Len(ExtractCalls) :
          ExtractCalls[k].out.fetches =
              IF has(ExtractCalls[k].arg.article, "html") THEN 0 ELSE 1
    /\ ExtractCalls # <<>> =>
          /\ has(loc.article, "html") <=> has(ExtractCalls[1].arg.article, "html")
          /\ has(loc.article, "html") => loc.fetches = 0
          /\ ~has(loc.article, "html") => loc.fetches = loc.runs

C16_Witness ==
    /\ pc = "returned"
    /\ ExtractCalls # <<>>
    /\ has(loc.article, "html")
    /\ loc.runs = 2
    /\ loc.fetches = 0

\* the link fetches that yield an item
Kept == SelectSeq(LinkFetches, LAMBDA c : c.out \in {"good link", "short link"})

\* C17: every item kept by the Fetch stage has a non-empty title; a fetched candidate
\* without a title yields no item, and records no error when other items are found.
C17_UntitledDropped ==
    /\ \A i \in 1..Len(state.articles) : state.articles[i].title # <<>>
    /\ pc \in {"fetch_source", "fetch_link"} =>
          \A i \in 1..Len(loc.articles) : loc.articles[i].title # <<>>
    /\ Logged("batch_process_sources", "returned") =>
          /\ Len(Discovered) = Len(Kept)
          /\ \A i \in 1..Len(Kept) : Discovered[i].url = Kept[i].arg
    /\ (pc = "extract_content" /\ Discovered # <<>>) => state.error = <<>>

C17_Witness ==
    /\ pc = "extract_content"
    /\ Len(LinkFetches) = 2
    /\ LinkFetches[1].out = "untitled link"
    /\ LinkFetches[2].out = "good link"
    /\ Len(state.articles) = 1
    /\ state.error = <<>>

Stages == <<"fetch_articles", "extract_content", "summarize_articles", "send_notifications">>

\* the stage a collaborator is called by
stage_of(fn) ==
    CASE fn \in {"fetch_with_retry", "batch_process_sources"} -> 1
      [] fn = "batch_process_articles" -> 2
      [] fn = "get_llm_summary" -> 3
      [] fn \in {"send_email", "send_email_summary"} -> 4

\* C18: the stages run in the order Fetch, Extract, Summarize, then Notify or the
\* end, each at most once; a stage starts only when the stage before it has returned,
\* and every call made for a stage comes after all the calls of the stages before it.
C18_StagesInOrder ==
    /\ Len(nodes_run) <= 4
    /\ \A k \in 1..Len(nodes_run) : nodes_run[k] = Stages[k]
    /\ \A k \in 1..Len(calls) : stage_of(calls[k].fn) <= Len(nodes_run)
    /\ \A k \in 1..(Len(calls) - 1) : stage_of(calls[k].fn) <= stage_of(calls[k + 1].fn)
    /\ pc = "fetch_articles" => nodes_run = <<>>
    /\ pc \in {"fetch_source", "fetch_link"} =>
          /\ nodes_run = SubSeq(Stages, 1, 1)
          /\ CallsOf("batch_process_sources") = <<>>
    /\ pc = "extract_content" =>
          /\ nodes_run = SubSeq(Stages, 1, 1)
          /\ loc = NoLoc
          /\ CallsOf("fetch_with_retry") # <<>> => Len(CallsOf("batch_process_sources")) = 1
    /\ pc = "summarize_articles" => nodes_run = SubSeq(Stages, 1, 2)
    /\ pc = "send_notifications" =>
          /\ nodes_run = SubSeq(Stages, 1, 3)
          /\ Len(LLMLog) = Len(state.summaries)
    /\ Finished => nodes_run \in {SubSeq(Stages, 1, 3), Stages}

C18_Witness ==
    /\ pc = "exit"
    /\ nodes_run = Stages
    /\ \A n \in 1..4 : \E k \in 1..Len(calls) : stage_of(calls[k].fn) = n

\* the items whose processing raised in a batch that returned
ItemFaults ==
    LET batches == CallsOf("batch_process_articles")
    IN IF batches = <<>> \/ batches[1].out = "raised" THEN {} ELSE batches[1].arg

\* C19 as stated: an item whose processing raised is dropped from the results of the
\* batch, so it is absent from items after the Extract stage.
C19_FaultingItemDropped ==
    Logged("batch_process_articles", "returned") =>
        Len(state.articles) = Len(Discovered) - Cardinality(ItemFaults)

\* C19 amended: a fault raised while an item is processed does not abort the batch
\* and does not change the outcome of the other items; it is caught within the item's
\* own processing and the item is kept in items, in its place, with extraction error
\* 'Error extracting content: ' followed by the message, and is not summarized.
C19_FaultingItemKept ==
    Logged("batch_process_articles", "returned") =>
        /\ state.error = <<>>
        /\ Len(state.articles) = Len(Discovered)
        /\ \A i \in 1..Len(state.articles) :
              LET a == state.articles[i]
                  n == content_of(Discovered[i].html)
              IN /\ a.url = Discovered[i].url
                 /\ a.title = Discovered[i].title
                 /\ a.html = Discovered[i].html
                 /\ i \in ItemFaults =>
                       /\ has(a, "error")
                       /\ Len(a.error) = 2
                       /\ a.error[1] = "Error extracting content: "
                       /\ ~has(a, "content")
                       /\ ~has(a, "summary")
                 /\ i \notin ItemFaults =>
                       IF n >= 50
                       THEN has(a, "content") /\ a.content = n /\ ~has(a, "error")
                       ELSE /\ has(a, "error")
                            /\ a.error = <<"Insufficient content extracted">>
                            /\ ~has(a, "content")

C19_Witness ==
    /\ pc = "exit"
    /\ ItemFaults = {1}
    /\ Len(state.articles) = 2
    /\ has(state.articles[2], "content")
    /\ Len(state.summaries) = 1
    /\ state.summaries[1].url = state.articles[2].url

\* the calls of extract_article_links made on its own
LinkCalls == CallsOf("extract_article_links")

article_pattern(url) ==
    \/ contains(url, <<"/", "article">>)
    \/ contains(url, <<"/", "news", "/">>)
    \/ contains(url, <<"/", "story", "/">>)

\* a sequence without its repeated elements, in the order of first appearance
RECURSIVE first_appearances(_, _)
first_appearances(s, seen) ==
    IF s = <<>> THEN <<>>
    ELSE IF Head(s) \in seen THEN first_appearances(Tail(s), seen)
    ELSE <<Head(s)>> \o first_appearances(Tail(s), seen \cup {Head(s)})

\* C20: link discovery returns exactly the anchors whose resolved url is an absolute
\* http url that contains '/article', '/news/' or '/story/', without duplicates and
\* in the order of first appearance; the first 2 of them at most are fetched.
C20_AbsoluteArticleLinks ==
    \A k \in 1..Len(LinkCalls) :
        LET anchors == LinkCalls[k].arg.soup.anchors
            resolved == [i \in 1..Len(anchors) |-> resolve(anchors[i], LinkCalls[k].arg.base_url)]
            wanted == first_appearances(
                          SelectSeq(resolved, LAMBDA u : starts_http(u) /\ article_pattern(u)), {})
        IN /\ LinkCalls[k].out.links = wanted
           /\ LinkCalls[k].out.fetched = SubSeq(wanted, 1, IF Len(wanted) < 2 THEN Len(wanted) ELSE 2)

\* the Extract stage ran on a non-empty items
ExtractRanOnItems == CallsOf("batch_process_articles") # <<>>

\* C21 as stated: after the Extract stage has run on a non-empty items, every item has
\* either content and no extraction error, or an extraction error and no content.
C21_ExactlyOneOutcome ==
    ExtractRanOnItems =>
        \A i \in 1..Len(state.articles) :
            has(state.articles[i], "content") <=> ~has_error(state.articles[i])

\* C21 amended: when the batch of the Extract stage returns, every item has either
\* content and no extraction error, or an extraction error and no content; when the
\* batch itself raises, error is set to 'Error extracting content: ' and the message,
\* and the items stay as the Fetch stage left them, with neither of the two.
C21_OneOutcomeUnlessBatchRaised ==
    /\ Logged("batch_process_articles", "returned") =>
          /\ state.articles # <<>>
          /\ \A i \in 1..Len(state.articles) :
                /\ has(state.articles[i], "content") <=> ~has(state.articles[i], "error")
                /\ has(state.articles[i], "content") => state.articles[i].content >= 50
                /\ has(state.articles[i], "error") => state.articles[i].error # <<>>
    /\ Logged("batch_process_articles", "raised") =>
          /\ state.error # <<>>
          /\ state.error[1] = "Error extracting content: "
          /\ Len(state.articles) = Len(Discovered)
          /\ \A i \in 1..Len(state.articles) :
                /\ ~has(state.articles[i], "content")
                /\ ~has(state.articles[i], "error")
                /\ state.articles[i].html = Discovered[i].html

C21_Witness ==
    /\ pc = "summarize_articles"
    /\ Logged("batch_process_articles", "returned")
    /\ Len(state.articles) = 2
    /\ has(state.articles[1], "content")
    /\ ~has(state.articles[1], "error")
    /\ has(state.articles[2], "error")
    /\ ~has(state.articles[2], "content")

\* C23: email_sent is true only when the Notify stage was invoked with a non-empty
\* summaries and the delivery returned success; then summaries is non-empty, and
\* email_sent is false in every run that ends without Notify.
C23_NotifiedOnlyWhenDelivered ==
    /\ state.email_sent =>
          /\ ran("send_notifications") = 1
          /\ Len(NotifyCalls) = 1
          /\ NotifyCalls[1].arg # <<>>
          /\ NotifyCalls[1].out = "delivered"
          /\ Logged("send_email", "sent")
          /\ state.summaries # <<>>
    /\ (Finished /\ ran("send_notifications") = 0) => ~state.email_sent
    /\ report.printed =>
          (state.email_sent <=> report.email = <<"Email was sent by the workflow.">>)

C23_Witness ==
    /\ pc = "exit"
    /\ state.email_sent
    /\ Len(state.summaries) = 2
    /\ report.email = <<"Email was sent by the workflow.">>

\* the name of a configured source: its name, or for a string the host of its url
\* without a leading 'www.'
configured_name(source) ==
    IF source.type = "dict" THEN source.name
    ELSE LET host == split(split(source.url, DSLASH)[2], SLASH)[1]
         IN IF host # <<>> /\ Head(host) = "www." THEN Tail(host) ELSE host

\* C22: every item carries as its source label the name of the configured source
\* from whose page it was discovered, whatever the list of sources.
C22_LabelIsSourceName ==
    \A k \in 1..Len(calls) :
        (calls[k].fn = "batch_process_sources" /\ ~calls[k].out.raised) =>
            /\ Len(calls[k].out.value) = Len(loc.sources)
            /\ \A i \in 1..Len(loc.sources) :
                  calls[k].out.value[i].source = configured_name(loc.sources[i])

====
